---- MODULE Spec2Model ----
(***************************************************************************)
(* Model of the docstr! procedural macro (src/src/lib.rs).                 *)
(*                                                                         *)
(* One invocation of docstr is a run of the state machine below: the      *)
(* input token stream is fixed in Init, pos is the cursor of the          *)
(* peekable iterator, and every loop iteration of the two scanners is one  *)
(* action.  Strings are sequences of text atoms; the characters that the   *)
(* literal syntax treats specially (newline, quote, backslash) are always  *)
(* atoms of their own.  A span is the path of indices of a token in the    *)
(* input (<<i>> top level, <<i, j>> inside the group at i, <<i, 0>> the    *)
(* opening bracket of the group at i); Span::call_site() is <<>>.          *)
(***************************************************************************)
EXTENDS Integers, Sequences, FiniteSets, TLC

\* ---------------------------------------------------------------- bounds
\* longest input drawn over the whole token alphabet
MaxLen == 3
\* longest run of pseudo-attributes in the call-shaped inputs
MaxRun == 3

\* ---------------------------------------------------------------- tokens
call_site == <<>>

Ident(s) == [type |-> "Ident", text |-> <<s>>, span |-> call_site]

PunctNew(c, sp) == [type |-> "Punct", ch |-> c, spacing |-> sp, span |-> call_site]

\* a punctuation token as the input holds it
P(c) == PunctNew(c, "Alone")

\* a literal token: kind is "str" ("..."), "raw" (r"...") or "int";
\* text is the source text between the quotes
Lit(k, t) == [type |-> "Literal", kind |-> k, text |-> t, span |-> call_site]

GroupNew(d, ts) == [type |-> "Group", delimiter |-> d, stream |-> ts, span |-> call_site]

IsPunct(tt, c) == tt.type = "Punct" /\ tt.ch = c

IsIdent(tt) == tt.type = "Ident"

IsBracketGroup(tt) == tt.type = "Group" /\ tt.delimiter = "Bracket"

SetSpan(tt, sp) == [tt EXCEPT !.span = sp]

RECURSIVE Stamp(_, _)
\* the spans the compiler gives the tokens of a stream: the index path
Stamp(ts, prefix) ==
    [i \in 1..Len(ts) |->
        IF ts[i].type = "Group"
        THEN [ts[i] EXCEPT !.span = prefix \o <<i>>,
                           !.stream = Stamp(ts[i].stream, prefix \o <<i>>)]
        ELSE [ts[i] EXCEPT !.span = prefix \o <<i>>]]

span_open(group) == group.span \o <<0>>

\* ---------------------------------------------------------------- strings
RECURSIVE Flatten(_)
Flatten(ss) == IF ss = <<>> THEN <<>> ELSE Head(ss) \o Flatten(Tail(ss))

\* Literal::string(&s): the source text of the string literal whose value is s
EscapeAtom(c) ==
    IF c = "\n" THEN <<"\\", "n">>
    ELSE IF c = "\"" THEN <<"\\", "\"">>
    ELSE IF c = "\\" THEN <<"\\", "\\">>
    ELSE <<c>>

Escape(s) == Flatten([i \in 1..Len(s) |-> EscapeAtom(s[i])])

LiteralString(s) == Lit("str", Escape(s))

RECURSIVE Unescape(_)
\* the value of the source text of a "..." literal
Unescape(t) ==
    IF t = <<>> THEN <<>>
    ELSE IF Head(t) = "\\" /\ Len(t) >= 2
         THEN <<(IF t[2] = "n" THEN "\n" ELSE t[2])>> \o Unescape(Tail(Tail(t)))
         ELSE <<Head(t)>> \o Unescape(Tail(t))

\* litrs::Literal::try_from(tt) is Ok(Literal::String(_))
IsStringLiteral(tt) == tt.type = "Literal" /\ tt.kind \in {"str", "raw"}

\* StringLit::value()
Value(lit) == IF lit.kind = "raw" THEN lit.text ELSE Unescape(lit.text)

RECURSIVE TrimStart(_)
\* str::trim_start_matches(' '): every leading space goes
TrimStart(literal) ==
    IF literal # <<>> /\ Head(literal) = " " THEN TrimStart(Tail(literal)) ELSE literal

\* str::strip_prefix(' ').unwrap_or(literal)
StripPrefix(literal) ==
    IF literal # <<>> /\ Head(literal) = " " THEN Tail(literal) ELSE literal

RECURSIVE ReduceSkipEmpty(_, _)
\* a joiner that adds no newline before an empty segment
ReduceSkipEmpty(acc, rest) ==
    IF rest = <<>> THEN acc
    ELSE IF Head(rest) = <<>> THEN ReduceSkipEmpty(acc, Tail(rest))
    ELSE ReduceSkipEmpty((acc \o <<"\n">>) \o Head(rest), Tail(rest))

RECURSIVE ReduceNewlineAfter(_, _)
\* a joiner that ends every pushed segment with a newline
ReduceNewlineAfter(acc, rest) ==
    IF rest = <<>> THEN acc
    ELSE ReduceNewlineAfter((acc \o Head(rest)) \o <<"\n">>, Tail(rest))

RECURSIVE Reduce(_, _)
\* Iterator::reduce with the closure of the joiner, acc the accumulator
Reduce(acc, rest) ==
    IF rest = <<>> THEN acc
    ELSE Reduce((acc \o <<"\n">>) \o Head(rest), Tail(rest))

\* doc_comments.into_iter().reduce(..).unwrap_or_default()
JoinDocComments(segs) == IF segs = <<>> THEN <<>> ELSE Reduce(Head(segs), Tail(segs))

\* Display of a token stream, token texts one after another
RECURSIVE Display(_)
Display(ts) ==
    IF ts = <<>> THEN <<>>
    ELSE (IF Head(ts).type = "Punct" THEN <<Head(ts).ch>> ELSE Head(ts).text)
         \o Display(Tail(ts))

\* ---------------------------------------------------------------- messages
\* (the backquote of the messages is written as an apostrophe)
MsgNoDocComments == <<"expected at least 1 documentation comment '/// ...'">>

\* a message that proposes the namespaced path only
MsgTwoIdentsPathOnly(macro, ident) ==
    <<"2 identifiers in a row is not a valid macro path", "\n", "\n",
      "did you mean: '">> \o Display(macro) \o <<"::">> \o ident.text \o <<"'">>

MsgTwoIdents(macro, ident) ==
    <<"2 identifiers in a row is not a valid macro path", "\n", "\n",
      "did you mean one of:", "\n", "- '">> \o Display(macro) \o <<"::">>
      \o ident.text \o <<"'", "\n", "- '">> \o Display(macro) \o <<"! ">>
      \o ident.text \o <<"'">>

MsgReplaceComma(macro) ==
    <<"replace with '!' to pass the macro: '">> \o Display(macro) \o <<"!'">>

MsgExpectedPath ==
    <<"expected path to macro like: 'std::format!'", "\n", "\n",
      "note: macro path is optional and can be omitted to produce a '&'static str'">>

MsgInnerDoc == <<"Inner doc comments '//! ...' are not supported. Please use '/// ...'">>

MsgExpectedComma == <<"expected ',' after this">>

MsgExpectedBrackets == <<"expected '[...]'">>

MsgHashNoBrackets == <<"expected '#' to be followed by '[...]'">>

MsgExpectedDoc == <<"expected 'doc'">>

MsgExpectedDocAfter == <<"expected 'doc' after '['">>

MsgExpectedEq == <<"expected '='">>

MsgExpectedEqAfter == <<"expected '=' after 'doc'">>

MsgExpectedLiteral == <<"expected string literal after '='">>

MsgOnlyStrings ==
    <<"only string ", "\"", "...", "\"", " or r", "\"", "...", "\"",
      " literals are supported">>

MsgOnlyDocComments ==
    <<"expected macro input to only contain doc comments '///', because you haven't supplied a path to a macro as the 1st argument">>

\* ---------------------------------------------------------------- diagnostics
CompileErrorNew(sp, message) == [span |-> sp, message |-> message]

\* CompileError::into_iter: compile_error ! { "message" }, all at the span
CompileErrorIntoIter(e) ==
    << SetSpan(Ident("compile_error"), e.span),
       SetSpan(PunctNew("!", "Alone"), e.span),
       SetSpan(GroupNew("Brace", <<SetSpan(LiteralString(e.message), e.span)>>), e.span) >>

\* a collector that keeps only the diagnostic filed last
ExtendOverwrite(errors, sp, message) ==
    CompileErrorIntoIter(CompileErrorNew(sp, message))

\* the closure compile_error: compile_errors.extend(CompileError::new(..))
Extend(errors, sp, message) ==
    errors \o CompileErrorIntoIter(CompileErrorNew(sp, message))

\* ---------------------------------------------------------------- inputs
Doc == Ident("doc")

Attr(lit) == GroupNew("Bracket", <<Doc, P("="), lit>>)

Hello == Lit("str", <<" ", "hello">>)

\* bracket groups that the scanner accepts as doc = STRING
GoodGroups ==
    { Attr(Hello),
      Attr(Lit("str", <<>>)),
      Attr(Lit("str", <<" ">>)),
      Attr(Lit("str", <<" ", " ", "a">>)),
      Attr(Lit("str", <<"\\", "n", "b">>)),
      Attr(Lit("raw", <<" ", "a", "\\", "n">>)),
      GroupNew("Bracket", <<Doc, P("="), Hello, Ident("s")>>) }

\* groups of every other shape
BadGroups ==
    { GroupNew("Bracket", <<>>),
      GroupNew("Bracket", <<Ident("s"), P("="), Hello>>),
      GroupNew("Bracket", <<Doc>>),
      GroupNew("Bracket", <<Doc, P(","), Hello>>),
      GroupNew("Bracket", <<Doc, P("=")>>),
      GroupNew("Bracket", <<Doc, P("="), Lit("int", <<"1">>)>>),
      GroupNew("Parenthesis", <<Doc, P("="), Hello>>) }

World == Lit("str", <<"world">>)

\* the alphabet of the short inputs: one token of every kind that the two
\* scanners tell apart
Tokens ==
    { Ident("writeln"), Ident("s"), P("!"), P(":"), P(","), P("#"), World,
      Attr(Hello), GroupNew("Bracket", <<Doc>>),
      GroupNew("Parenthesis", <<Doc, P("="), Hello>>) }

\* the groups of the runs of the call-shaped inputs
RunGroups ==
    { Attr(Hello), Attr(Lit("str", <<>>)), Attr(Lit("str", <<" ", " ", "a">>)),
      Attr(Lit("str", <<"\\", "n", "b">>)), GroupNew("Bracket", <<Doc>>) }

Prefixes ==
    { <<>>,
      <<Ident("writeln"), P("!")>>,
      <<Ident("writeln"), P("!"), Ident("s")>>,
      <<Ident("writeln"), P("!"), Ident("s"), P(",")>>,
      <<Ident("s"), P(":"), P(":"), Ident("writeln"), P("!")>> }

Suffixes ==
    { <<>>, <<World>>, <<P(","), World>>, <<World, P("#"), Attr(Hello)>> }

RECURSIVE Runs(_)
\* n pseudo-attributes (marker, group) in a row
Runs(n) ==
    IF n = 0 THEN { <<>> }
    ELSE { <<P("#"), g>> \o r : g \in RunGroups, r \in Runs(n - 1) }

\* every input over the alphabet, up to MaxLen tokens
ShortInputs == UNION { [1..n -> Tokens] : n \in 0..MaxLen }

\* one pseudo-attribute of every shape, alone or followed by a second one or by
\* trailing arguments, in bare-literal mode, in call mode and after a path of
\* two identifiers in a row
AttrInputs ==
    { (p \o <<P("#"), g>>) \o s :
        p \in { <<>>, <<Ident("writeln"), P("!")>>, <<Ident("writeln"), Ident("s")>> },
        g \in GoodGroups \cup BadGroups,
        s \in { <<>>, <<P("#"), Attr(Hello)>>, <<World>>, <<World, World>> } }

\* path, leading arguments, a run of up to MaxRun pseudo-attributes, trailing
\* arguments
CallInputs ==
    { (p \o r) \o s : p \in Prefixes, r \in UNION { Runs(n) : n \in 1..MaxRun },
                      s \in Suffixes }

Inputs == { Stamp(ts, <<>>) : ts \in (ShortInputs \cup AttrInputs) \cup CallInputs }

\* ---------------------------------------------------------------- state
\* input, pos             the peekable iterator: its tokens and its cursor
\* pc                     the place of control in docstr: "start", "path" (the
\*                        path loop), "scan" (the doc comment loop), "joined",
\*                        "done" (returned), "panicked"
\* macro_, last_is_ident  the path read so far and the flag of the path loop
\* before, doc_comments, after, doc_comment_progress, string
\*                        the locals of the same names
\* compile_errors         the token stream of the collector
\* filed                  the diagnostics in the order in which compile_error
\*                        and CompileError::new were called
\* output                 the returned token stream, <<>> until docstr returns
VARIABLES input, pos, pc, macro_, last_is_ident, before, doc_comments, after,
          doc_comment_progress, compile_errors, filed, string, output

vars == << input, pos, pc, macro_, last_is_ident, before, doc_comments, after,
           doc_comment_progress, compile_errors, filed, string, output >>

\* Option<TokenStream>
None == [is_some |-> FALSE, tokens |-> <<>>]

Some(ts) == [is_some |-> TRUE, tokens |-> ts]

RECURSIVE ExtendAll(_, _)
\* the closure compile_error called once for each diagnostic of new, in order
ExtendAll(errors, new) ==
    IF new = <<>> THEN errors
    ELSE ExtendAll(Extend(errors, Head(new).span, Head(new).message), Tail(new))

\* input.peek() with the cursor at p
HasNext(p) == p < Len(input)

Peek(p) == input[p + 1]

PeekIs(p, c) == HasNext(p) /\ IsPunct(Peek(p), c)

Init ==
    /\ input \in Inputs
    /\ pos = 0
    /\ pc = "start"
    /\ macro_ = None
    /\ last_is_ident = FALSE
    /\ before = <<>>
    /\ doc_comments = <<>>
    /\ after = <<>>
    /\ doc_comment_progress = "NotReached"
    /\ compile_errors = <<>>
    /\ filed = <<>>
    /\ string = <<>>
    /\ output = <<>>

\* ---------------------------------------------------------------- call target
\* the match on input.peek() that opens docstr
Start ==
    /\ pc = "start"
    /\ IF PeekIs(pos, "#")
       THEN /\ macro_' = None
            /\ pc' = "scan"
            /\ UNCHANGED << filed, output >>
       ELSE IF HasNext(pos)
       THEN /\ macro_' = Some(<<>>)
            /\ pc' = "path"
            /\ UNCHANGED << filed, output >>
       ELSE /\ output' = CompileErrorIntoIter(CompileErrorNew(call_site, MsgNoDocComments))
            /\ filed' = <<CompileErrorNew(call_site, MsgNoDocComments)>>
            /\ pc' = "done"
            /\ UNCHANGED macro_
    /\ last_is_ident' = FALSE
    /\ UNCHANGED << input, pos, before, doc_comments, after, doc_comment_progress,
                    compile_errors, string >>

\* the span of the catch-all arm of the path loop: tt is <<>> (None) or <<token>>
PathErrorSpan(tt, macro) ==
    IF tt # <<>> THEN tt[1].span
    ELSE IF macro # <<>> THEN macro[Len(macro)].span
    ELSE call_site

\* the outcome of one iteration of the path loop on tt (<<>> is None)
PathArm(tt, macro, last) ==
    IF tt # <<>> /\ IsPunct(tt[1], "!")
    THEN [macro |-> Append(macro, tt[1]), last |-> last, brk |-> TRUE, err |-> <<>>]
    ELSE IF tt # <<>> /\ IsPunct(tt[1], ":")
    THEN [macro |-> Append(macro, tt[1]), last |-> FALSE, brk |-> FALSE, err |-> <<>>]
    ELSE IF tt # <<>> /\ IsIdent(tt[1])
    THEN IF last
         THEN [macro |-> <<>>, last |-> last, brk |-> TRUE,
               err |-> <<CompileErrorNew(tt[1].span, MsgTwoIdents(macro, tt[1]))>>]
         ELSE [macro |-> Append(macro, tt[1]), last |-> TRUE, brk |-> FALSE, err |-> <<>>]
    ELSE IF tt # <<>> /\ IsPunct(tt[1], ",")
    THEN [macro |-> <<>>, last |-> last, brk |-> TRUE,
          err |-> <<CompileErrorNew(tt[1].span, MsgReplaceComma(macro))>>]
    ELSE [macro |-> <<>>, last |-> last, brk |-> TRUE,
          err |-> <<CompileErrorNew(PathErrorSpan(tt, macro), MsgExpectedPath)>>]

\* one iteration of the loop that reads the path of the macro
PathStep ==
    /\ pc = "path"
    /\ LET tt == IF HasNext(pos) THEN <<Peek(pos)>> ELSE <<>>
           r == PathArm(tt, macro_.tokens, last_is_ident)
       IN /\ pos' = IF HasNext(pos) THEN pos + 1 ELSE pos
          /\ macro_' = Some(r.macro)
          /\ last_is_ident' = r.last
          /\ compile_errors' = ExtendAll(compile_errors, r.err)
          /\ filed' = filed \o r.err
          /\ pc' = IF r.brk THEN "scan" ELSE "path"
    /\ UNCHANGED << input, before, doc_comments, after, doc_comment_progress,
                    string, output >>

\* ---------------------------------------------------------------- doc comments
\* the checks on the tokens inside the brackets, up to the push of the segment
ParseAttribute(group) ==
    LET inner == group.stream
        Fail(sp, message) == [err |-> <<CompileErrorNew(sp, message)>>, seg |-> <<>>]
    IN IF inner = <<>> THEN Fail(span_open(group), MsgExpectedDocAfter)
       ELSE IF ~(IsIdent(inner[1]) /\ inner[1].text = <<"doc">>)
       THEN Fail(inner[1].span, MsgExpectedDoc)
       ELSE IF Len(inner) < 2 THEN Fail(inner[1].span, MsgExpectedEqAfter)
       ELSE IF ~IsPunct(inner[2], "=") THEN Fail(inner[2].span, MsgExpectedEq)
       ELSE IF Len(inner) < 3 THEN Fail(inner[2].span, MsgExpectedLiteral)
       ELSE IF ~IsStringLiteral(inner[3]) THEN Fail(inner[3].span, MsgOnlyStrings)
       ELSE [err |-> <<>>, seg |-> <<StripPrefix(Value(inner[3]))>>]

\* the progress after the marker has been taken
\* a marker that leaves the progress where it was
EnterProgressStays(progress) == progress

EnterProgress(progress) == IF progress = "NotReached" THEN "Inside" ELSE progress

\* a progress that ends the run after its first pseudo-attribute
NextProgressAlwaysFinished(progress, next_is_hash) == "Finished"

\* a progress that starts over when the run ends
NextProgressReset(progress, next_is_hash) ==
    IF next_is_hash THEN progress ELSE "NotReached"

\* the progress after the group has been taken: is a marker next?
NextProgress(progress, next_is_hash) == IF next_is_hash THEN progress ELSE "Finished"

\* a guard that asks for the separator after every token that is not one
MissingCommaEveryToken(is_current_comma, next_is_hash) == ~is_current_comma

\* a guard that never asks for the separator
MissingCommaNever(is_current_comma, next_is_hash) == FALSE

\* a guard that forgets to look at the current token
MissingCommaAnyToken(is_current_comma, next_is_hash) == next_is_hash

\* the guard of the arm that files the missing separator
MissingComma(is_current_comma, next_is_hash) == ~is_current_comma /\ next_is_hash

\* one iteration of the scanner loop whose token is the marker at input[p]
AttributeArm(p, progress) ==
    LET hash == input[p]
        inner_doc == PeekIs(p, "!")
        e1 == IF inner_doc THEN <<CompileErrorNew(Peek(p).span, MsgInnerDoc)>> ELSE <<>>
        p1 == IF inner_doc THEN p + 1 ELSE p
        progress1 == EnterProgress(progress)
    IN IF ~HasNext(p1)
       THEN [pos |-> p1, progress |-> progress1, seg |-> <<>>,
             err |-> e1 \o <<CompileErrorNew(hash.span, MsgHashNoBrackets)>>]
       ELSE IF ~IsBracketGroup(Peek(p1))
       THEN [pos |-> p1 + 1, progress |-> progress1, seg |-> <<>>,
             err |-> e1 \o <<CompileErrorNew(Peek(p1).span, MsgExpectedBrackets)>>]
       ELSE LET r == ParseAttribute(Peek(p1))
            IN [pos |-> p1 + 1,
                progress |-> NextProgress(progress1, PeekIs(p1 + 1, "#")),
                seg |-> r.seg, err |-> e1 \o r.err]

\* an arm 1 that drops a marker met after the run
ScanAfterSkipsMarker ==
    /\ pc = "scan"
    /\ HasNext(pos)
    /\ doc_comment_progress = "Finished"
    /\ after' = IF IsPunct(Peek(pos), "#") THEN after ELSE Append(after, Peek(pos))
    /\ pos' = pos + 1
    /\ UNCHANGED << input, pc, macro_, last_is_ident, before, doc_comments,
                    doc_comment_progress, compile_errors, filed, string, output >>

\* loop iteration, arm 1: the run is over, the token goes to after
ScanAfter ==
    /\ pc = "scan"
    /\ HasNext(pos)
    /\ doc_comment_progress = "Finished"
    /\ after' = Append(after, Peek(pos))
    /\ pos' = pos + 1
    /\ UNCHANGED << input, pc, macro_, last_is_ident, before, doc_comments,
                    doc_comment_progress, compile_errors, filed, string, output >>

\* loop iteration, arm 2: the token is the marker; the rest of the loop body
ScanAttribute ==
    /\ pc = "scan"
    /\ HasNext(pos)
    /\ doc_comment_progress # "Finished"
    /\ IsPunct(Peek(pos), "#")
    /\ LET r == AttributeArm(pos + 1, doc_comment_progress)
       IN /\ pos' = r.pos
          /\ doc_comment_progress' = r.progress
          /\ doc_comments' = doc_comments \o r.seg
          /\ compile_errors' = ExtendAll(compile_errors, r.err)
          /\ filed' = filed \o r.err
    /\ UNCHANGED << input, pc, macro_, last_is_ident, before, after, string, output >>

\* loop iteration, arm 3: the run is not reached, the token goes to before
ScanBefore ==
    /\ pc = "scan"
    /\ HasNext(pos)
    /\ doc_comment_progress = "NotReached"
    /\ ~IsPunct(Peek(pos), "#")
    /\ LET tt == Peek(pos)
           missing == MissingComma(IsPunct(tt, ","), PeekIs(pos + 1, "#"))
           err == IF missing THEN <<CompileErrorNew(tt.span, MsgExpectedComma)>> ELSE <<>>
       IN /\ before' = IF missing THEN before \o <<tt, PunctNew(",", "Joint")>>
                       ELSE Append(before, tt)
          /\ compile_errors' = ExtendAll(compile_errors, err)
          /\ filed' = filed \o err
    /\ pos' = pos + 1
    /\ UNCHANGED << input, pc, macro_, last_is_ident, doc_comments, after,
                    doc_comment_progress, string, output >>

\* loop iteration, arm 4: unreachable!() panics, the invocation has no output
ScanUnreachable ==
    /\ pc = "scan"
    /\ HasNext(pos)
    /\ doc_comment_progress = "Inside"
    /\ ~IsPunct(Peek(pos), "#")
    /\ pos' = pos + 1
    /\ pc' = "panicked"
    /\ UNCHANGED << input, macro_, last_is_ident, before, doc_comments, after,
                    doc_comment_progress, compile_errors, filed, string, output >>

\* a loop exit that accepts an empty list of segments
NoDocCommentsAccepted(segs) == <<>>

\* the check for no segment after the loop
NoDocComments(segs) ==
    IF segs = <<>> THEN <<CompileErrorNew(call_site, MsgNoDocComments)>> ELSE <<>>

\* the cursor is exhausted: the check for no segment, then the joiner
AfterLoop ==
    /\ pc = "scan"
    /\ ~HasNext(pos)
    /\ LET err == NoDocComments(doc_comments)
       IN /\ compile_errors' = ExtendAll(compile_errors, err)
          /\ filed' = filed \o err
    /\ string' = JoinDocComments(doc_comments)
    /\ pc' = "joined"
    /\ UNCHANGED << input, pos, macro_, last_is_ident, before, doc_comments, after,
                    doc_comment_progress, output >>

\* ---------------------------------------------------------------- synthesis
\* a call whose literal is followed by a comma only when after follows
CallExprNoTrailingComma(macro, b, s, a) ==
    macro \o <<GroupNew("Parenthesis",
                        (b \o <<LiteralString(s)>>)
                        \o (IF a = <<>> THEN <<>> ELSE <<PunctNew(",", "Joint")>>) \o a)>>

\* the call: the path, then ( before "string" , after )
CallExpr(macro, b, s, a) ==
    macro \o <<GroupNew("Parenthesis",
                        (b \o <<LiteralString(s), PunctNew(",", "Joint")>>) \o a)>>

\* a return that emits the recovered output in spite of the errors
ReturnedRecovered(errors, normal) == normal

\* what docstr returns once the collector holds errors
Returned(errors, normal) == IF errors # <<>> THEN errors ELSE normal

\* a check of bare-literal mode that looks at before only
OnlyDocCommentsBefore(b, a) ==
    IF b # <<>> THEN <<CompileErrorNew(call_site, MsgOnlyDocComments)>> ELSE <<>>

\* the check of bare-literal mode
OnlyDocComments(b, a) ==
    IF b # <<>> \/ a # <<>>
    THEN <<CompileErrorNew(call_site, MsgOnlyDocComments)>> ELSE <<>>

\* the end of docstr: the report, the literal or the call
Synthesize ==
    /\ pc = "joined"
    /\ IF ~macro_.is_some
       THEN LET err == OnlyDocComments(before, after)
            IN /\ compile_errors' = ExtendAll(compile_errors, err)
               /\ filed' = filed \o err
               /\ output' = Returned(compile_errors', <<LiteralString(string)>>)
       ELSE /\ output' = Returned(compile_errors,
                                  CallExpr(macro_.tokens, before, string, after))
            /\ UNCHANGED << compile_errors, filed >>
    /\ pc' = "done"
    /\ UNCHANGED << input, pos, macro_, last_is_ident, before, doc_comments, after,
                    doc_comment_progress, string >>

Next ==
    \/ Start
    \/ PathStep
    \/ ScanAfter
    \/ ScanAttribute
    \/ ScanBefore
    \/ ScanUnreachable
    \/ AfterLoop
    \/ Synthesize

Spec == Init /\ [][Next]_vars

\* docstr runs to its end: no step that can be taken is put off for ever
FairSpec == Spec /\ WF_vars(Next)

\* ---------------------------------------------------------------- reading the output
TypeOK ==
    /\ pc \in {"start", "path", "scan", "joined", "done", "panicked"}
    /\ pos \in 0..Len(input)
    /\ doc_comment_progress \in {"NotReached", "Inside", "Finished"}

Terminated == pc \in {"done", "panicked"}

Last(ts) == ts[Len(ts)]

IsPrefix(a, b) == Len(a) <= Len(b) /\ SubSeq(b, 1, Len(a)) = a

\* sub occurs in s as a contiguous block
Contains(s, sub) ==
    \E i \in 1..(Len(s) - Len(sub) + 1) : SubSeq(s, i, i + Len(sub) - 1) = sub

Messages(errors) == { errors[i].message : i \in 1..Len(errors) }

\* one compile_error ! { "message" } invocation at out[i .. i+2]
IsCompileErrorAt(out, i) ==
    /\ IsIdent(out[i]) /\ out[i].text = <<"compile_error">>
    /\ IsPunct(out[i + 1], "!")
    /\ out[i + 2].type = "Group" /\ out[i + 2].delimiter = "Brace"
    /\ Len(out[i + 2].stream) = 1
    /\ IsStringLiteral(out[i + 2].stream[1])

\* the output is made only of compile_error invocations, and of one at least
IsReport(out) ==
    /\ out # <<>>
    /\ Len(out) % 3 = 0
    /\ \A k \in 1..(Len(out) \div 3) : IsCompileErrorAt(out, 3 * k - 2)

\* the diagnostics a report shows, in its order
Entries(out) ==
    [k \in 1..(Len(out) \div 3) |->
        [span |-> out[3 * k - 2].span, message |-> Value(out[3 * k].stream[1])]]

IsLiteralOut(out) == Len(out) = 1 /\ out[1].type = "Literal" /\ out[1].kind = "str"

\* a path that ends in ! and one parenthesized group
IsCallOut(out) ==
    /\ Len(out) >= 2
    /\ Last(out).type = "Group" /\ Last(out).delimiter = "Parenthesis"
    /\ IsPunct(out[Len(out) - 1], "!")
    /\ ~(IsIdent(out[1]) /\ out[1].text = <<"compile_error">>)

\* ---------------------------------------------------------------- C1
\* C1: when the invocation is over, its output is a report of compile_error
\* invocations exactly when a diagnostic was filed, and one string literal or
\* one call expression exactly when none was filed.
C1_OutputMatchesDiagnostics ==
    Terminated =>
        /\ (filed # <<>>) => (IsReport(output) /\ ~IsLiteralOut(output) /\ ~IsCallOut(output))
        /\ (filed = <<>>) => (~IsReport(output) /\ (IsLiteralOut(output) \/ IsCallOut(output)))

RECURSIVE JoinWithNewline(_)
\* the segments with one newline between neighbours, built from the right
JoinWithNewline(segs) ==
    IF Len(segs) = 1 THEN segs[1]
    ELSE (segs[1] \o <<"\n">>) \o JoinWithNewline(Tail(segs))

RECURSIVE TotalLen(_)
TotalLen(segs) == IF segs = <<>> THEN 0 ELSE Len(Head(segs)) + TotalLen(Tail(segs))

\* the string literal of a successful output: the output itself, or the
\* argument that follows the before tokens of the call
EmittedLiteral(out) ==
    IF IsLiteralOut(out) THEN out[1] ELSE Last(out).stream[Len(before) + 1]

\* C3: when no diagnostic is filed, the value of the emitted string literal is
\* the segments in input order with exactly one newline between neighbours,
\* empty segments kept: k segments give k-1 inserted newlines.
C3_JoinedText ==
    (pc = "done" /\ filed = <<>>) =>
        LET text == Value(EmittedLiteral(output))
        IN /\ doc_comments # <<>>
           /\ text = JoinWithNewline(doc_comments)
           /\ Len(text) = TotalLen(doc_comments) + (Len(doc_comments) - 1)

\* three segments, the last one empty: the text ends in the inserted newline
C3_Witness ==
    /\ pc = "done"
    /\ filed = <<>>
    /\ doc_comments = << <<"hello">>, <<" ", "a">>, <<>> >>
    /\ IsLiteralOut(output)
    /\ Value(output[1]) = <<"hello", "\n", " ", "a", "\n">>

\* ---------------------------------------------------------------- C4
\* C4: in call mode with no diagnostic filed the output is the tokens of the
\* call target, then one parenthesized group that holds the before tokens, the
\* string literal, one comma and the after tokens, in this order; the comma
\* follows the literal also when after is empty.
C4_CallShape ==
    (pc = "done" /\ filed = <<>> /\ macro_.is_some) =>
        LET n == Len(output)
            args == output[n].stream
            b == Len(before)
        IN /\ n = Len(macro_.tokens) + 1
           /\ macro_.tokens # <<>>
           /\ SubSeq(output, 1, n - 1) = SubSeq(input, 1, n - 1)
           /\ IsPunct(output[n - 1], "!")
           /\ output[n].type = "Group" /\ output[n].delimiter = "Parenthesis"
           /\ Len(args) = b + 2 + Len(after)
           /\ SubSeq(args, 1, b) = before
           /\ IsStringLiteral(args[b + 1]) /\ Value(args[b + 1]) = string
           /\ IsPunct(args[b + 2], ",")
           /\ SubSeq(args, b + 3, Len(args)) = after

\* a call with arguments before the literal and none after it
C4_Witness ==
    /\ pc = "done"
    /\ filed = <<>>
    /\ macro_.is_some
    /\ before # <<>>
    /\ after = <<>>
    /\ IsCallOut(output)
    /\ IsPunct(Last(Last(output).stream), ",")

\* ---------------------------------------------------------------- C5
\* writeln ! s #[doc = " hello"]
C5_Input ==
    Stamp(<<Ident("writeln"), P("!"), Ident("s"), P("#"), Attr(Hello)>>, <<>>)

C5_Filed == <<CompileErrorNew(<<3>>, MsgExpectedComma)>>

C5_Before == <<SetSpan(Ident("s"), <<3>>), PunctNew(",", "Joint")>>

Synthesized(tt) == IsPunct(tt, ",") /\ tt.span = call_site

\* C6: in a NotReached iteration whose token goes to before, the diagnostic
\* "expected , after this" is filed at that token and a comma is appended to
\* before exactly when the token is not a comma and the next token is the
\* marker; no other iteration files it.  Once the scanner has left NotReached:
\* if before is empty or ends in a comma of the input, the diagnostic was not
\* filed and before holds no inserted comma.
C6_MissingSeparator ==
    /\ [][LET tt == Peek(pos)
              e == CompileErrorNew(tt.span, MsgExpectedComma)
              arm == /\ pc = "scan" /\ HasNext(pos)
                     /\ doc_comment_progress = "NotReached"
                     /\ ~IsPunct(tt, "#")
              missing == ~IsPunct(tt, ",") /\ PeekIs(pos + 1, "#")
          IN /\ (arm /\ missing) =>
                    /\ filed' = Append(filed, e)
                    /\ before' = before \o <<tt, PunctNew(",", "Joint")>>
             /\ (arm /\ ~missing) =>
                    /\ filed' = filed
                    /\ before' = Append(before, tt)
             /\ ~arm => /\ before' = before
                        /\ \A i \in (Len(filed) + 1)..Len(filed') :
                               filed'[i].message # MsgExpectedComma]_vars
    /\ [](doc_comment_progress # "NotReached" =>
            IF before = <<>> \/ (IsPunct(Last(before), ",") /\ ~Synthesized(Last(before)))
            THEN /\ MsgExpectedComma \notin Messages(filed)
                 /\ \A i \in 1..Len(before) : ~Synthesized(before[i])
            ELSE /\ MsgExpectedComma \in Messages(filed)
                 /\ Synthesized(Last(before)))

\* the separator was missing: the diagnostic is at the token before the marker
C6_Witness ==
    /\ pc = "done"
    /\ \E i \in 1..Len(filed) :
           filed[i].message = MsgExpectedComma /\ input[filed[i].span[1]].type # "Punct"
    /\ Len(before) >= 2
    /\ Synthesized(Last(before))

\* ---------------------------------------------------------------- C7
\* C7: in bare-literal mode (the input starts with the marker, there is no call
\* target) a non-empty before or a non-empty after ends in a report that holds
\* the bare-literal-mode diagnostic, never in a string literal.
C7_BareModeOnlyDocComments ==
    (Terminated /\ ~macro_.is_some /\ (before # <<>> \/ after # <<>>)) =>
        /\ pc = "done"
        /\ IsReport(output)
        /\ ~IsLiteralOut(output)
        /\ MsgOnlyDocComments \in Messages(Entries(output))

\* one good pseudo-attribute, then a token: the only diagnostic is this one
C7_Witness ==
    /\ pc = "done"
    /\ ~macro_.is_some
    /\ after # <<>>
    /\ doc_comments # <<>>
    /\ Entries(output) = <<CompileErrorNew(call_site, MsgOnlyDocComments)>>

C9_StripOneSpace ==
    [][Len(doc_comments') # Len(doc_comments) =>
          LET decoded == Value(input[pos'].stream[3])
              seg == Last(doc_comments')
          IN /\ doc_comments' = Append(doc_comments, seg)
             /\ IF decoded # <<>> /\ decoded[1] = " "
                THEN decoded = <<" ">> \o seg
                ELSE decoded = seg]_vars

\* the literal "  a" gave the segment " a"
C9_Witness ==
    \E i \in 1..Len(doc_comments) :
        /\ doc_comments[i] = <<" ", "a">>
        /\ \E j \in 1..pos : /\ IsBracketGroup(input[j])
                             /\ Len(input[j].stream) >= 3
                             /\ input[j].stream[3].type = "Literal"
                             /\ input[j].stream[3].text = <<" ", " ", "a">>

\* ---------------------------------------------------------------- C10
\* C10: in the path loop an identifier that directly follows an identifier
\* files one diagnostic at it whose message proposes path::ident and
\* path! ident; the path is reset to empty and the path loop is over.
C10_TwoIdentifiers ==
    [][(pc = "path" /\ pos >= 1 /\ HasNext(pos)
        /\ IsIdent(input[pos]) /\ IsIdent(Peek(pos))) =>
          LET path == Display(SubSeq(input, 1, pos))
              id == Peek(pos).text
          IN /\ Len(filed') = Len(filed) + 1
             /\ Last(filed').span = Peek(pos).span
             /\ Contains(Last(filed').message, (path \o <<"::">>) \o id)
             /\ Contains(Last(filed').message, (path \o <<"! ">>) \o id)
             /\ macro_' = Some(<<>>)
             /\ pc' = "scan"]_vars

\* writeln s: the diagnostic at s proposes writeln::s and writeln! s
C10_Witness ==
    /\ pc = "scan"
    /\ pos = 2
    /\ macro_ = Some(<<>>)
    /\ filed # <<>>
    /\ filed[1].span = <<2>>
    /\ Contains(filed[1].message, <<"writeln", "::", "s">>)
    /\ Contains(filed[1].message, <<"writeln", "! ", "s">>)

\* ---------------------------------------------------------------- C11
\* C11: the invocation terminates; every iteration of the path loop and of the
\* doc comment loop takes a token from the cursor or leaves its loop; and when
\* the doc comment loop is left the cursor is exhausted.
C11_Terminates ==
    /\ <>Terminated
    /\ [][pc = "path" => (pos' > pos \/ pc' # "path")]_vars
    /\ [][pc = "scan" => (pos' > pos \/ pc' # "scan")]_vars
    /\ [][(pc = "scan" /\ pc' # "scan") => pos' = Len(input)]_vars

\* ---------------------------------------------------------------- C12
HasNewline(s) == \E i \in 1..Len(s) : s[i] = "\n"

RECURSIVE SplitLines(_)
\* str::split('\n'): the pieces between the newlines, empty pieces kept
SplitLines(s) ==
    IF ~HasNewline(s) THEN <<s>>
    ELSE LET i == CHOOSE k \in 1..Len(s) : s[k] = "\n" /\ \A j \in 1..(k - 1) : s[j] # "\n"
         IN <<SubSeq(s, 1, i - 1)>> \o SplitLines(SubSeq(s, i + 1, Len(s)))

\* C12: for a non-empty list of segments none of which holds a newline, the
\* joined string split at its newlines is the list again, empty segments at
\* any place included.
C12_JoinSplitRoundTrip ==
    (pc \in {"joined", "done"} /\ doc_comments # <<>>
     /\ \A i \in 1..Len(doc_comments) : ~HasNewline(doc_comments[i])) =>
        SplitLines(string) = doc_comments

\* an empty segment first and last
C12_Witness ==
    /\ pc = "joined"
    /\ doc_comments = << <<>>, <<"hello">>, <<>> >>
    /\ string = <<"\n", "hello", "\n">>
    /\ SplitLines(string) = doc_comments

\* ---------------------------------------------------------------- C13
\* C13: at the start of every iteration of the doc comment loop, if the
\* progress is Inside then the token taken is the marker; the arm of
\* unreachable!() is never run.
C13_InsideMeetsMarker ==
    /\ pc # "panicked"
    /\ (pc = "scan" /\ HasNext(pos) /\ doc_comment_progress = "Inside") =>
           IsPunct(Peek(pos), "#")

\* ---------------------------------------------------------------- C14
\* Identifier (':' ... Identifier)* '!'
IsNamespacedPath(ts) ==
    /\ Len(ts) >= 2
    /\ IsIdent(ts[1])
    /\ IsPunct(Last(ts), "!")
    /\ \A i \in 1..(Len(ts) - 1) : IsIdent(ts[i]) \/ IsPunct(ts[i], ":")
    /\ \A i \in 2..Len(ts) : IsIdent(ts[i]) => IsPunct(ts[i - 1], ":")
    /\ ~IsPunct(ts[Len(ts) - 1], ":")

\* C14: a call target that the path loop returns without a diagnostic (the
\* path is not reset to empty) is a namespaced path: it begins with an
\* identifier, every further identifier follows a ':', no ':' is first or
\* directly before the terminator, and it ends in its only '!'.
C14_ValidatedPath ==
    (pc \notin {"start", "path"} /\ macro_.is_some /\ macro_.tokens # <<>>) =>
        IsNamespacedPath(macro_.tokens)

\* ---------------------------------------------------------------- C15
\* the tokens inside the brackets are doc = STRING and nothing else
IsDocString(ts) ==
    /\ Len(ts) = 3
    /\ IsIdent(ts[1]) /\ ts[1].text = <<"doc">>
    /\ IsPunct(ts[2], "=")
    /\ IsStringLiteral(ts[3])

\* C15: an iteration that takes the marker and a bracket group appends one
\* segment, at the end of the list, exactly when the group is doc = STRING
\* and nothing else; for a group of any other shape it files a diagnostic,
\* leaves the segments alone and stays in the loop.
C15_SegmentIffDocString ==
    [][(/\ pc = "scan" /\ HasNext(pos)
        /\ doc_comment_progress # "Finished"
        /\ IsPunct(Peek(pos), "#")
        /\ pos' > pos
        /\ IsBracketGroup(input[pos'])) =>
          IF IsDocString(input[pos'].stream)
          THEN /\ Len(doc_comments') = Len(doc_comments) + 1
               /\ SubSeq(doc_comments', 1, Len(doc_comments)) = doc_comments
          ELSE /\ doc_comments' = doc_comments
               /\ Len(filed') > Len(filed)
               /\ pc' = "scan"]_vars

\* ---------------------------------------------------------------- C16
\* the order of the derive(PartialOrd, Ord) of DocCommentProgress
Rank(progress) ==
    IF progress = "NotReached" THEN 0 ELSE IF progress = "Inside" THEN 1 ELSE 2

\* C16: no step moves the progress backward in the order NotReached, Inside,
\* Finished: after Inside it is never NotReached, after Finished it stays
\* Finished.
C16_ProgressMonotone ==
    [][Rank(doc_comment_progress') >= Rank(doc_comment_progress)]_vars

\* a run of two pseudo-attributes was read, and a marker was met after it
C16_Witness ==
    /\ pc = "done"
    /\ doc_comment_progress = "Finished"
    /\ Len(doc_comments) >= 2
    /\ \E i \in 1..Len(after) : IsPunct(after[i], "#")

\* ---------------------------------------------------------------- C17
\* C17: once the progress is Finished every iteration appends its token, a
\* marker or a doc = STRING group included, to after and changes neither the
\* segments nor before nor the diagnostics nor the progress; after is then the
\* tokens of the input that were taken since, in their order.
C17_FinishedRoutesToAfter ==
    /\ [][(pc = "scan" /\ HasNext(pos) /\ doc_comment_progress = "Finished") =>
             /\ after' = Append(after, Peek(pos))
             /\ pos' = pos + 1
             /\ pc' = "scan"
             /\ UNCHANGED << doc_comments, before, filed, compile_errors,
                             doc_comment_progress >>]_vars
    /\ [](Len(after) <= pos /\ after = SubSeq(input, pos - Len(after) + 1, pos))
    /\ [](after # <<>> => doc_comment_progress = "Finished")

\* a second doc = STRING pseudo-attribute after the run went to after
C17_Witness ==
    /\ pc = "done"
    /\ Len(doc_comments) = 1
    /\ Len(after) = 3
    /\ IsPunct(after[2], "#")
    /\ IsBracketGroup(after[3]) /\ IsDocString(after[3].stream)

\* ---------------------------------------------------------------- C18
\* C18: in a call that is emitted the string literal has a comma directly
\* before it, or is the first argument, and has a comma directly after it;
\* and whenever the scanner has left NotReached, before is empty or ends in a
\* comma.
C18_LiteralSeparated ==
    /\ (pc = "done" /\ filed = <<>> /\ macro_.is_some) =>
           LET args == Last(output).stream
               k == CHOOSE i \in 1..Len(args) :
                        /\ IsStringLiteral(args[i]) /\ args[i].span = call_site
           IN /\ IsCallOut(output)
              /\ \E i \in 1..Len(args) :
                     IsStringLiteral(args[i]) /\ args[i].span = call_site
              /\ Value(args[k]) = string
              /\ k = 1 \/ IsPunct(args[k - 1], ",")
              /\ k < Len(args) /\ IsPunct(args[k + 1], ",")
    /\ doc_comment_progress # "NotReached" =>
           (before = <<>> \/ IsPunct(Last(before), ","))

\* arguments on both sides of the literal
C18_Witness ==
    /\ pc = "done"
    /\ filed = <<>>
    /\ IsCallOut(output)
    /\ before # <<>>
    /\ after # <<>>
    /\ IsPunct(Last(before), ",")
    /\ ~IsPunct(after[1], ",")

\* ---------------------------------------------------------------- C19
\* n pseudo-attributes in a row: the marker, then a bracket group
IsRun(ts, n) ==
    /\ Len(ts) = 2 * n
    /\ \A i \in 1..n : IsPunct(ts[2 * i - 1], "#") /\ IsBracketGroup(ts[2 * i])

\* C19: when a call-mode invocation ends without a diagnostic, the input is
\* the target, then before, then one pseudo-attribute per segment, then after,
\* token for token: the target ends at the first !, before holds no marker,
\* after does not start with a marker, and the call holds before and after
\* around the literal and its comma.
C19_InputPartition ==
    (pc = "done" /\ filed = <<>> /\ macro_.is_some) =>
        LET target == macro_.tokens
            t == Len(target)
            b == Len(before)
            n == Len(doc_comments)
        IN /\ input = ((target \o before)
                         \o SubSeq(input, t + b + 1, t + b + 2 * n)) \o after
           /\ t + b + 2 * n <= Len(input)
           /\ IsRun(SubSeq(input, t + b + 1, t + b + 2 * n), n)
           /\ t >= 1
           /\ \A i \in 1..t : IsPunct(target[i], "!") <=> i = t
           /\ \A i \in 1..b : ~IsPunct(before[i], "#")
           /\ after = <<>> \/ ~IsPunct(after[1], "#")
           /\ SubSeq(output, 1, t) = target
           /\ Last(output).stream =
                  (before \o <<LiteralString(string), PunctNew(",", "Joint")>>) \o after

\* arguments before and after a run of two pseudo-attributes
C19_Witness ==
    /\ pc = "done"
    /\ filed = <<>>
    /\ macro_.is_some
    /\ Len(macro_.tokens) = 2
    /\ Len(before) = 2
    /\ Len(doc_comments) = 2
    /\ after # <<>>
    /\ Len(input) = 8 + Len(after)

\* ---------------------------------------------------------------- C20
\* the path loop was left through one of its error arms
PathFailed == pc \notin {"start", "path"} /\ macro_.is_some /\ macro_.tokens = <<>>

\* C20: when the path loop filed a diagnostic the path is empty, the scanner
\* of the doc comments goes on over the rest of the input and files into the
\* same collector, the invocation ends with the report of every diagnostic,
\* and "input must contain only doc comments" is not among them.
C20_PathErrorReport ==
    /\ [][(pc = "path" /\ filed' # filed) =>
             (macro_'.tokens = <<>> /\ pc' = "scan")]_vars
    /\ [](PathFailed => filed # <<>>)
    /\ []((PathFailed /\ Terminated) =>
             /\ pos = Len(input)
             /\ IsReport(output)
             /\ Entries(output) = filed
             /\ MsgOnlyDocComments \notin Messages(filed))

\* ---------------------------------------------------------------- C21
\* how many of the diagnostics in errors carry the message
Count(errors, message) ==
    Cardinality({ i \in 1..Len(errors) : errors[i].message = message })

\* the diagnostics that are about the shape of the whole invocation
StructuralMessages == { MsgNoDocComments, MsgOnlyDocComments, MsgExpectedComma }

\* C21: at every point of an invocation each of "no doc comments",
\* "only doc comments" and "expected , after this" has been filed at most
\* once, and a report that is emitted shows each of them at most once.
C21_StructuralOnce ==
    \A message \in StructuralMessages :
        /\ Count(filed, message) <= 1
        /\ (Terminated /\ IsReport(output)) => Count(Entries(output), message) <= 1

\* the separator was missed before a run of several markers, and the report
\* shows the diagnostic once
C21_Witness ==
    /\ pc = "done"
    /\ IsReport(output)
    /\ Len(doc_comments) >= 2
    /\ Count(Entries(output), MsgExpectedComma) = 1

\* ---------------------------------------------------------------- C22
\* the match at the head of docstr met the marker first and gave no target
BareMode == pc # "start" /\ ~macro_.is_some /\ input # <<>>

\* C22: in bare-literal mode the first token is the marker and is still in
\* the cursor when the scan begins; before is empty all along, the separator
\* diagnostic is never filed, and "only doc comments" is filed only with a
\* non-empty after.
C22_BareModeBeforeEmpty ==
    BareMode =>
        /\ IsPunct(input[1], "#")
        /\ (pc = "scan" /\ doc_comment_progress = "NotReached") => pos = 0
        /\ before = <<>>
        /\ MsgExpectedComma \notin Messages(filed)
        /\ MsgOnlyDocComments \in Messages(filed) => after # <<>>

\* bare-literal mode with tokens after the run: the diagnostic is filed
C22_Witness ==
    /\ pc = "done"
    /\ BareMode
    /\ before = <<>>
    /\ Len(after) >= 2
    /\ Last(filed).message = MsgOnlyDocComments

====
